---- MODULE Spec2Model ----
(***************************************************************************)
(* A model of PathCompletionProvider                                       *)
(* (extensions/markdown-language-features/src/features/pathCompletions.ts) *)
(*                                                                         *)
(* Text is modelled as sequences of one-character strings.  A position is  *)
(* the character offset inside the (single) line the cursor is on.  A path *)
(* is a sequence of segments, each segment a sequence of characters.       *)
(* Each completion request is a little process: provideCompletionItems     *)
(* runs synchronously up to its first await, and every await is resumed by *)
(* a separate action that draws the outcome of the awaited external call.  *)
(***************************************************************************)
EXTENDS Integers, Sequences, FiniteSets, TLC

\* ------------------------------------------------------------------ bounds
\* Longest text typed after one of the line heads of Heads.
MaxTail == 2
\* Longest directory listing returned by readDirectory.
MaxListing == 3
\* Longest text after the cursor.
MaxSuffix == 2
\* Number of completion requests in flight at the same time.
NumRequests == 2

\* --------------------------------------------------------- character classes
\* \s of the regular expressions
WhiteSpace == {" ", "\t"}
\* [\w\d\-] of the regular expressions, over the letters the model types
WordChars == {"a", "b", "c", "d", "x", "1", "_", "-"}
\* The characters a line can be made of.
Alphabet == {"[", "]", "(", ")", " ", "#", ":", "/", "a", "-"}

\* All texts of at most n characters over the set chars.
Texts(chars, n) == UNION {[1..k -> chars] : k \in 0..n}

\* s.slice(from) with from counted from 0
Drop(s, n) == SubSeq(s, n + 1, Len(s))
\* s.slice(0, n)
Take(s, n) == SubSeq(s, 1, n)

\* The length of the longest leading run of s made of characters outside bad:
\* what a greedy [^...]* matches at the start of s.
RunLength(s, bad) ==
    IF \E k \in 1..Len(s) : s[k] \in bad
    THEN (CHOOSE k \in 1..Len(s) : s[k] \in bad /\ \A m \in 1..(k - 1) : s[m] \notin bad) - 1
    ELSE Len(s)

\* The length of the longest leading run of s made of characters of good:
\* what a greedy \s* or [\w\d\-]+ matches at the start of s.
SpanLength(s, good) ==
    IF \E k \in 1..Len(s) : s[k] \notin good
    THEN (CHOOSE k \in 1..Len(s) : s[k] \notin good /\ \A m \in 1..(k - 1) : s[m] \in good) - 1
    ELSE Len(s)

\* ------------------------------------------------------- the link patterns
\* The tail "\s*([^\s\(\)]*)$" shared by both patterns: t is white space
\* followed by a run free of white space and parentheses, up to the end.
TargetTailMatches(t) ==
    LET w == SpanLength(t, WhiteSpace)
    IN  \A k \in (w + 1)..Len(t) : t[k] \notin (WhiteSpace \cup {"(", ")"})

\* Capture group 2 of such a tail.
TargetTailGroup(t) == Drop(t, SpanLength(t, WhiteSpace))

\* "\[([^\]]*?)\]" + opener + tail, tried at index i of s: the label cannot
\* hold a "]", so it ends at the first "]" after i, which the opener follows.
StartPatternMatchesAt(s, i, opener) ==
    /\ s[i] = "["
    /\ \E j \in (i + 1)..Len(s) :
          /\ s[j] = "]"
          /\ \A k \in (i + 1)..(j - 1) : s[k] # "]"
          /\ j + 1 <= Len(s)
          /\ s[j + 1] = opener
          /\ TargetTailMatches(Drop(s, j + 1))

\* String.prototype.match with a pattern that is not global: the match at the
\* leftmost index that has one.  The result is [matched, group2].
StartPatternMatch(s, opener) ==
    IF \E i \in 1..Len(s) : StartPatternMatchesAt(s, i, opener)
    THEN LET i == CHOOSE i \in 1..Len(s) :
                     /\ StartPatternMatchesAt(s, i, opener)
                     /\ \A m \in 1..(i - 1) : ~StartPatternMatchesAt(s, m, opener)
             j == CHOOSE j \in (i + 1)..Len(s) :
                     s[j] = "]" /\ \A k \in (i + 1)..(j - 1) : s[k] # "]"
         IN  [matched |-> TRUE, group2 |-> TargetTailGroup(Drop(s, j + 1))]
    ELSE [matched |-> FALSE, group2 |-> <<>>]

\* /\[([^\]]*?)\]\(\s*([^\s\(\)]*)$/
linkStartPattern(s) == StartPatternMatch(s, "(")

\* /\[([^\]]*?)\]\[\s*([^\s\(\)]*)$/
referenceLinkStartPattern(s) == StartPatternMatch(s, "[")

IsSchemeLike_Never(prefix) == FALSE

\* /^\s*[\w\d\-]+:/.test(prefix)
IsSchemeLike(prefix) ==
    LET rest == Drop(prefix, SpanLength(prefix, WhiteSpace))
        n    == SpanLength(rest, WordChars)
    IN  n >= 1 /\ n + 1 <= Len(rest) /\ rest[n + 1] = ":"

\* prefix.match(/^(.*)#([\w\d\-]*)$/): the greedy (.*) takes the last "#"
\* that only word characters follow.
AnchorMatch(prefix) ==
    LET Ok(k) == prefix[k] = "#" /\ \A m \in (k + 1)..Len(prefix) : prefix[m] \in WordChars
    IN  IF \E k \in 1..Len(prefix) : Ok(k)
        THEN LET k == CHOOSE k \in 1..Len(prefix) :
                         Ok(k) /\ \A m \in (k + 1)..Len(prefix) : ~Ok(m)
             IN  [defined      |-> TRUE,
                  beforeAnchor |-> Take(prefix, k - 1),
                  anchorPrefix |-> Drop(prefix, k)]
        ELSE [defined |-> FALSE, beforeAnchor |-> <<>>, anchorPrefix |-> <<>>]

\* lineSuffixText.match(/^[^\)\s]*/) and lineSuffixText.match(/^[^\]\s]*/)
SuffixMatch(lineSuffixText, closer) ==
    Take(lineSuffixText, RunLength(lineSuffixText, WhiteSpace \cup {closer}))

NoContext == [kind |-> "undefined"]

NoAnchor == [defined |-> FALSE, beforeAnchor |-> <<>>, anchorPrefix |-> <<>>]

getPathCompletionContext(lineText, position) ==
    LET linePrefixText  == Take(lineText, position)
        lineSuffixText  == Drop(lineText, position)
        linkPrefixMatch == linkStartPattern(linePrefixText)
        referenceLinkPrefixMatch == referenceLinkStartPattern(linePrefixText)
    IN  IF linkPrefixMatch.matched
        THEN LET prefix == linkPrefixMatch.group2
             IN  IF IsSchemeLike(prefix)
                 THEN NoContext
                 ELSE [kind                  |-> "Link",
                       linkPrefix            |-> prefix,
                       linkTextStartPosition |-> position - Len(prefix),
                       linkSuffix            |-> SuffixMatch(lineSuffixText, ")"),
                       anchorInfo            |-> AnchorMatch(prefix)]
        ELSE IF referenceLinkPrefixMatch.matched
        THEN LET prefix == referenceLinkPrefixMatch.group2
             IN  [kind                  |-> "ReferenceLink",
                  linkPrefix            |-> prefix,
                  linkTextStartPosition |-> position - Len(prefix),
                  linkSuffix            |-> SuffixMatch(lineSuffixText, "]"),
                  anchorInfo            |-> NoAnchor]
        ELSE NoContext

\* ------------------------------------------------------ reference resolver
\* A reference cut at its "/" characters.
RECURSIVE SplitPath(_)
SplitPath(ref) ==
    IF \E k \in 1..Len(ref) : ref[k] = "/"
    THEN LET k == RunLength(ref, {"/"}) + 1
         IN  <<Take(ref, k - 1)>> \o SplitPath(Drop(ref, k))
    ELSE <<ref>>

\* Path normalisation as path.resolve and Uri.joinPath do it: empty and "."
\* segments are dropped, ".." removes the segment before it (none at the root).
RECURSIVE NormalizeOnto(_, _)
NormalizeOnto(base, segments) ==
    IF segments = <<>>
    THEN base
    ELSE LET h == Head(segments)
             next == IF h = <<>> \/ h = <<".">>
                     THEN base
                     ELSE IF h = <<".", ".">>
                     THEN Take(base, IF Len(base) = 0 THEN 0 ELSE Len(base) - 1)
                     ELSE Append(base, h)
         IN  NormalizeOnto(next, Tail(segments))

StartsWith(s, c) == Len(s) >= 1 /\ s[1] = c

\* vscode.Uri.joinPath(workspaceFolder.uri, ref)
joinPath(root, ref) == NormalizeOnto(root, SplitPath(ref))

\* resolve(dirname(document.uri.path), ref) of 'path'
resolve(dir, ref) ==
    IF StartsWith(ref, "/")
    THEN NormalizeOnto(<<>>, SplitPath(ref))
    ELSE NormalizeOnto(dir, SplitPath(ref))

\* dirname(document.uri.path): the document is /w/d/doc.md
DocumentDir == << <<"w">>, <<"d">> >>

\* The workspace folder that holds the document, when one is open: /w
WorkspaceRoot == << <<"w">> >>

UndefinedUri == [defined |-> FALSE, path |-> <<>>]

\* resolveReference(document, ref).  folder is what getWorkspaceFolder
\* returns; uriOk is FALSE when building the uri in the try block throws.
resolveReference(folder, ref, uriOk) ==
    IF StartsWith(ref, "/") /\ folder.defined
    THEN [defined |-> TRUE, path |-> joinPath(folder.path, ref)]
    ELSE IF uriOk
    THEN [defined |-> TRUE, path |-> resolve(DocumentDir, ref)]
    ELSE UndefinedUri

\* --------------------------------------------------- suggestion strategies
ReplacementRange_InsertOnly(insertionRange, position, context) == insertionRange

\* new vscode.Range(insertionRange.start,
\*                  position.translate({ characterDelta: context.linkSuffix.length }))
ReplacementRange(insertionRange, position, context) ==
    <<insertionRange[1], position + Len(context.linkSuffix)>>

\* provideReferenceSuggestions: one item per definition, in their order.
provideReferenceSuggestions(definitions, position, context, insertionRange) ==
    [i \in 1..Len(definitions) |->
        [kind      |-> "Reference",
         label     |-> definitions[i],
         inserting |-> insertionRange,
         replacing |-> ReplacementRange(insertionRange, position, context),
         command   |-> FALSE]]

\* provideHeaderSuggestions, after getToc has returned toc (a list of slugs).
provideHeaderSuggestions(toc, position, context, insertionRange) ==
    [i \in 1..Len(toc) |->
        [kind      |-> "Reference",
         label     |-> <<"#">> \o toc[i],
         inserting |-> insertionRange,
         replacing |-> ReplacementRange(insertionRange, position, context),
         command   |-> FALSE]]

\* context.linkPrefix.substring(0, context.linkPrefix.lastIndexOf('/') + 1)
valueBeforeLastSlash(linkPrefix) ==
    LET slashes == {k \in 1..Len(linkPrefix) : linkPrefix[k] = "/"}
        last    == IF slashes = {} THEN 0
                   ELSE CHOOSE k \in slashes : \A m \in slashes : m <= k
    IN  Take(linkPrefix, last)

\* The reference providePathSuggestions resolves: valueBeforeLastSlash || '.'
ParentDirRef(linkPrefix) ==
    IF valueBeforeLastSlash(linkPrefix) = <<>> THEN <<".">>
    ELSE valueBeforeLastSlash(linkPrefix)

IsHidden_Never(name) == FALSE

\* name.startsWith('.')
IsHidden(name) == StartsWith(name, ".")

\* providePathSuggestions, after readDirectory has returned infos, a list of
\* <<name, type>>.
PathItems(infos, position, context) ==
    LET before           == valueBeforeLastSlash(context.linkPrefix)
        pathSegmentStart == position + (Len(before) - Len(context.linkPrefix))
        insertRange      == <<pathSegmentStart, position>>
        Visible(info)    == ~IsHidden(info[1])
        shown            == SelectSeq(infos, Visible)
    IN  [i \in 1..Len(shown) |->
            LET isDir == shown[i][2] = "Directory"
            IN  [kind      |-> IF isDir THEN "Folder" ELSE "File",
                 label     |-> IF isDir THEN shown[i][1] \o <<"/">> ELSE shown[i][1],
                 inserting |-> insertRange,
                 replacing |-> ReplacementRange(insertRange, position, context),
                 command   |-> isDir]]

\* ------------------------------------------------------------------- state
VARIABLES
    workspaceFolder, \* what vscode.workspace.getWorkspaceFolder(document.uri) returns
    pc,              \* per request: where provideCompletionItems stands
    enabled,         \* per request: the 'suggest.paths.enabled' setting it read
    line,            \* per request: document.lineAt(position.line).text
    position,        \* per request: position.character
    context,         \* per request: what getPathCompletionContext returned
    items,           \* per request: the items pushed so far (the result when done)
    calls,           \* per request: the calls made to collaborators, in order
    otherDoc,        \* per request: what resolveUriToMarkdownFile returned
    infos,           \* per request: what readDirectory returned
    cancelled        \* per request: _token.isCancellationRequested

vars == <<workspaceFolder, pc, enabled, line, position, context, items, calls,
          otherDoc, infos, cancelled>>

Requests == 1..NumRequests

NoFolder == [defined |-> FALSE, path |-> <<>>]

\* One entry of calls.
Call(op, doc, ref, uri) == [op |-> op, doc |-> doc, ref |-> ref, uri |-> uri]

Init ==
    /\ workspaceFolder \in {NoFolder, [defined |-> TRUE, path |-> WorkspaceRoot]}
    /\ pc        = [r \in Requests |-> "idle"]
    /\ enabled   = [r \in Requests |-> TRUE]
    /\ line      = [r \in Requests |-> <<>>]
    /\ position  = [r \in Requests |-> 0]
    /\ context   = [r \in Requests |-> NoContext]
    /\ items     = [r \in Requests |-> <<>>]
    /\ calls     = [r \in Requests |-> <<>>]
    /\ otherDoc  = [r \in Requests |-> "unset"]
    /\ infos     = [r \in Requests |-> [status |-> "unset", entries |-> <<>>]]
    /\ cancelled = [r \in Requests |-> FALSE]

\* ------------------------------------------------------------ orchestrator
IsAnchorInCurrentDoc_AnyAnchor(ctx) == ctx.anchorInfo.defined

\* context.anchorInfo && context.anchorInfo.beforeAnchor.length === 0
IsAnchorInCurrentDoc(ctx) ==
    ctx.anchorInfo.defined /\ Len(ctx.anchorInfo.beforeAnchor) = 0

\* if (context.linkPrefix.length === 0 || isAnchorInCurrentDoc)
WantsCurrentDocHeaders(ctx) ==
    Len(ctx.linkPrefix) = 0 \/ IsAnchorInCurrentDoc(ctx)

WantsOtherSuggestions_Always(ctx) == TRUE

\* if (!isAnchorInCurrentDoc)
WantsOtherSuggestions(ctx) == ~IsAnchorInCurrentDoc(ctx)

\* The block "if (!isAnchorInCurrentDoc) { ... }" of provideCompletionItems
\* up to its first await: the calls it makes and where it then stands.
OtherSuggestions(folder, ctx, uriOk) ==
    IF ~WantsOtherSuggestions(ctx)
    THEN [pc |-> "done", calls |-> <<>>]
    ELSE IF ctx.anchorInfo.defined
    THEN LET ref    == ctx.anchorInfo.beforeAnchor
             rawUri == resolveReference(folder, ref, uriOk)
         IN  IF rawUri.defined
             THEN [pc    |-> "awaitOtherDoc",
                   calls |-> << Call("resolveReference", "current", ref, rawUri),
                                Call("resolveUriToMarkdownFile", "other", ref, rawUri) >>]
             ELSE [pc    |-> "done",
                   calls |-> << Call("resolveReference", "current", ref, rawUri) >>]
    ELSE LET ref       == ParentDirRef(ctx.linkPrefix)
             parentDir == resolveReference(folder, ref, uriOk)
         IN  IF parentDir.defined
             THEN [pc    |-> "awaitReadDirectory",
                   calls |-> << Call("resolveReference", "current", ref, parentDir),
                                Call("readDirectory", "current", ref, parentDir) >>]
             ELSE [pc    |-> "done",
                   calls |-> << Call("resolveReference", "current", ref, parentDir) >>]

\* provideCompletionItems from its entry to its first await (or its return).
\* The document's line is pre \o suf with the cursor between the two.
provideCompletionItems(r, prefixes, suffixes, definitionLists) ==
    /\ pc[r] = "idle"
    /\ \E pre \in prefixes, suf \in suffixes, on \in BOOLEAN,
          uriOk \in BOOLEAN, definitions \in definitionLists :
          LET ctx == getPathCompletionContext(pre \o suf, Len(pre))
              pos == Len(pre)
              insertRange == <<ctx.linkTextStartPosition, pos>>
              other == OtherSuggestions(workspaceFolder, ctx, uriOk)
          IN  /\ enabled'  = [enabled EXCEPT ![r] = on]
              /\ line'     = [line EXCEPT ![r] = pre \o suf]
              /\ position' = [position EXCEPT ![r] = pos]
              /\ IF ~on
                 THEN /\ pc' = [pc EXCEPT ![r] = "done"]
                      /\ UNCHANGED <<context, items, calls>>
                 ELSE /\ context' = [context EXCEPT ![r] = ctx]
                      /\ IF ctx.kind = "undefined"
                         THEN /\ pc' = [pc EXCEPT ![r] = "done"]
                              /\ UNCHANGED <<items, calls>>
                         ELSE IF ctx.kind = "ReferenceLink"
                         THEN /\ pc' = [pc EXCEPT ![r] = "done"]
                              /\ calls' = [calls EXCEPT ![r] =
                                     << Call("getDefinitions", "current", <<>>, UndefinedUri) >>]
                              /\ items' = [items EXCEPT ![r] =
                                     provideReferenceSuggestions(definitions, pos, ctx, insertRange)]
                         ELSE IF WantsCurrentDocHeaders(ctx)
                         THEN /\ pc' = [pc EXCEPT ![r] = "awaitCurrentToc"]
                              /\ calls' = [calls EXCEPT ![r] =
                                     << Call("getToc", "current", <<>>, UndefinedUri) >>]
                              /\ UNCHANGED items
                         ELSE /\ pc' = [pc EXCEPT ![r] = other.pc]
                              /\ calls' = [calls EXCEPT ![r] = other.calls]
                              /\ UNCHANGED items
    /\ UNCHANGED <<workspaceFolder, otherDoc, infos, cancelled>>

\* "await this.provideHeaderSuggestions(document, ...)" on the current
\* document resumes: getToc returned toc, or threw (nothing catches it, so the
\* promise of provideCompletionItems is rejected).
CurrentTocReturns(r, tocs) ==
    /\ pc[r] = "awaitCurrentToc"
    /\ \E throws \in BOOLEAN, toc \in tocs, uriOk \in BOOLEAN :
          LET ctx   == context[r]
              other == OtherSuggestions(workspaceFolder, ctx, uriOk)
              insertRange == <<ctx.linkTextStartPosition, position[r]>>
          IN  IF throws
              THEN /\ pc' = [pc EXCEPT ![r] = "failed"]
                   /\ UNCHANGED <<items, calls>>
              ELSE /\ items' = [items EXCEPT ![r] =
                          @ \o provideHeaderSuggestions(toc, position[r], ctx, insertRange)]
                   /\ pc' = [pc EXCEPT ![r] = other.pc]
                   /\ calls' = [calls EXCEPT ![r] = @ \o other.calls]
    /\ UNCHANGED <<workspaceFolder, enabled, line, position, context, otherDoc, infos, cancelled>>

\* "await resolveUriToMarkdownFile(rawUri)" resumes with a document, with
\* undefined, or by throwing.
OtherDocReturns(r) ==
    /\ pc[r] = "awaitOtherDoc"
    /\ \E outcome \in {"document", "undefined", "throws"} :
          /\ pc' = [pc EXCEPT ![r] =
                 IF outcome = "document" THEN "awaitOtherToc"
                 ELSE IF outcome = "undefined" THEN "done"
                 ELSE "failed"]
          /\ calls' = [calls EXCEPT ![r] =
                 IF outcome = "document"
                 THEN Append(@, Call("getToc", "other", @[Len(@)].ref, @[Len(@)].uri))
                 ELSE @]
          /\ otherDoc' = [otherDoc EXCEPT ![r] = outcome]
    /\ UNCHANGED <<workspaceFolder, enabled, line, position, context, items, infos, cancelled>>

\* "await this.provideHeaderSuggestions(otherDoc, ...)" resumes.
OtherTocReturns(r, tocs) ==
    /\ pc[r] = "awaitOtherToc"
    /\ \E throws \in BOOLEAN, toc \in tocs :
          LET ctx == context[r]
              anchorStartPosition == position[r] - (Len(ctx.anchorInfo.anchorPrefix) + 1)
              range == <<anchorStartPosition, position[r]>>
          IN  IF throws
              THEN /\ pc' = [pc EXCEPT ![r] = "failed"]
                   /\ UNCHANGED items
              ELSE /\ pc' = [pc EXCEPT ![r] = "done"]
                   /\ items' = [items EXCEPT ![r] =
                          @ \o provideHeaderSuggestions(toc, position[r], ctx, range)]
    /\ UNCHANGED <<workspaceFolder, enabled, line, position, context, calls, otherDoc,
                   infos, cancelled>>

\* "await vscode.workspace.fs.readDirectory(parentDir)" resumes inside the
\* try block of providePathSuggestions: a listing, or an error that is caught.
ReadDirectoryReturns(r, listings) ==
    /\ pc[r] = "awaitReadDirectory"
    /\ \E throws \in BOOLEAN, entries \in listings :
          /\ pc' = [pc EXCEPT ![r] = "done"]
          /\ items' = [items EXCEPT ![r] =
                 IF throws THEN @ ELSE @ \o PathItems(entries, position[r], context[r])]
          /\ infos' = [infos EXCEPT ![r] =
                 IF throws THEN [status |-> "error", entries |-> <<>>]
                 ELSE [status |-> "listing", entries |-> entries]]
    /\ UNCHANGED <<workspaceFolder, enabled, line, position, context, calls, otherDoc,
                   cancelled>>

\* The host cancels the token of a request that is in flight.  No statement
\* of the provider reads _token.
Cancel(r) ==
    /\ pc[r] \in {"awaitCurrentToc", "awaitOtherDoc", "awaitOtherToc", "awaitReadDirectory"}
    /\ ~cancelled[r]
    /\ cancelled' = [cancelled EXCEPT ![r] = TRUE]
    /\ UNCHANGED <<workspaceFolder, pc, enabled, line, position, context, items, calls,
                   otherDoc, infos>>

\* ---------------------------------------------------------- specifications
\* One request's steps, with the inputs its collaborators may hand it.
Step(r, prefixes, suffixes, definitionLists, tocs, listings) ==
    \/ provideCompletionItems(r, prefixes, suffixes, definitionLists)
    \/ CurrentTocReturns(r, tocs)
    \/ OtherDocReturns(r)
    \/ OtherTocReturns(r, tocs)
    \/ ReadDirectoryReturns(r, listings)

\* Text written as a word: the characters of a line.
LinkHead     == <<"[", "x", "]", "(">>
RefHead      == <<"[", "x", "]", "[">>
SecondLink   == <<"[", "a", "]", "(", "a", ")", " ", "[", "a", "]", "(">>
SecondRef    == <<"[", "a", "]", "[", "a">>
LinkTarget   == <<"[", "a", "]", "(", "a">>
SchemeHead   == <<"[", "x", "]", "(", "a", ":">>

OneToc       == { << <<"a">> >> }
OneDefList   == { << <<"a">> >> }
OneListing   == { << << <<"a">>, "File" >> >> }

\* Concurrent requests, each on one of three inline links, with cancellation.
FewPrefixes  == {LinkHead, LinkHead \o <<"a">>, LinkHead \o <<"a", "#">>}

Next ==
    \E r \in Requests :
        \/ Step(r, FewPrefixes, {<<>>}, OneDefList, OneToc, OneListing)
        \/ Cancel(r)

Spec == Init /\ [][Next]_vars

\* One request on every line made of a head and up to MaxTail typed characters.
Heads == {<<>>, LinkHead, RefHead, SecondLink, SecondRef, LinkTarget, SchemeHead}

TypedPrefixes == {h \o t : h \in Heads, t \in Texts(Alphabet, MaxTail)}

NextClassify ==
    Step(1, TypedPrefixes, {<<"a", ")">>}, OneDefList, OneToc, OneListing)

SpecClassify == Init /\ [][NextClassify]_vars

\* One request on a link of each kind.
ItemPrefixes ==
    { LinkHead,
      LinkHead \o <<"a">>,
      LinkHead \o <<"a", "/">>,
      LinkHead \o <<"/", "a", "/", "a">>,
      LinkHead \o <<"#">>,
      LinkHead \o <<"#", "a">>,
      LinkHead \o <<"a", "#", "a">>,
      RefHead,
      RefHead \o <<"a">> }

SuffixChars == {")", "]", " ", "a"}

Tocs == { <<>>, << <<"a">>, <<"a", "-", "1">> >> }

DefLists == { <<>>, << <<"a">>, <<"b">> >> }

EntryNames == { <<"a">>, <<".", "a">>, <<"a", ".">> }

\* The members of vscode.FileType a directory entry is reported with.
FileTypes == {"File", "Directory", "SymbolicLink"}

Listings == Texts(EntryNames \X FileTypes, MaxListing)

SomeListings ==
    { <<>>,
      << << <<"a", ".">>, "File" >>, << <<".", "a">>, "File" >>, << <<"a">>, "Directory" >> >> }

\* ... with every text after the cursor of at most MaxSuffix characters, and
\* the tables of contents, definitions and listings of Tocs, DefLists and
\* SomeListings.
NextItems ==
    Step(1, ItemPrefixes, Texts(SuffixChars, MaxSuffix), DefLists, Tocs, SomeListings)

SpecItems == Init /\ [][NextItems]_vars

\* ... with every directory listing of at most MaxListing entries.
NextListing ==
    Step(1, ItemPrefixes, {<<"a", ")">>}, OneDefList, OneToc, Listings)

SpecListing == Init /\ [][NextListing]_vars

\* ------------------------------------------------- shapes of a line prefix
\* The text before the cursor of request r.
LinePrefix(r) == Take(line[r], position[r])

\* s[i..j] is "[label]" and an opening parenthesis follows it at j + 1.
IsLabelledParen(s, i, j) ==
    /\ 1 <= i /\ i < j /\ j + 1 <= Len(s)
    /\ s[i] = "[" /\ s[j] = "]" /\ s[j + 1] = "("
    /\ \A m \in (i + 1)..(j - 1) : s[m] # "]"

\* s ends with "[label](" target, the target starting at index from.
EndsWithInlineTarget(s, from) ==
    /\ \E i \in 1..Len(s) : IsLabelledParen(s, i, from - 2)
    /\ \A m \in from..Len(s) : s[m] \notin (WhiteSpace \cup {"(", ")"})

\* s ends with "[label](" prefix "#" frag, the "#" at index k, with frag made
\* of word characters.
EndsWithAnchorTarget(s, from, k) ==
    /\ EndsWithInlineTarget(s, from)
    /\ from <= k /\ k <= Len(s)
    /\ s[k] = "#"
    /\ \A m \in (k + 1)..Len(s) : s[m] \in WordChars

\* s ends with "[label](" scheme ":" rest, the ":" at index k.
EndsWithSchemeTarget(s, from, k) ==
    /\ EndsWithInlineTarget(s, from)
    /\ from < k /\ k <= Len(s)
    /\ s[k] = ":"
    /\ \A m \in from..(k - 1) : s[m] \in WordChars

\* Request r ran provideCompletionItems with path suggestions enabled.
Ran(r) == pc[r] # "idle" /\ enabled[r]

CallsOf(r, op) == {n \in 1..Len(calls[r]) : calls[r][n].op = op}

\* ------------------------------------------------------------------ claims
\* C1 (as stated).  For every line prefix "[x](prefix#frag" with a non-empty
\* prefix free of white space and parentheses and frag made of word
\* characters, the context is an inline link with anchorInfo.beforeAnchor =
\* prefix and anchorInfo.anchorPrefix = frag, the heading strategy is
\* dispatched on the document resolved from prefix and never runs on the
\* current document.
C1_AsStated ==
    \A r \in Requests : Ran(r) =>
        \A from \in 1..Len(LinePrefix(r)), k \in 1..Len(LinePrefix(r)) :
            (EndsWithAnchorTarget(LinePrefix(r), from, k) /\ from < k) =>
                /\ context[r].kind = "Link"
                /\ context[r].anchorInfo.defined
                /\ context[r].anchorInfo.beforeAnchor = SubSeq(LinePrefix(r), from, k - 1)
                /\ context[r].anchorInfo.anchorPrefix = Drop(LinePrefix(r), k)
                /\ CallsOf(r, "resolveReference") # {}
                /\ \A n \in CallsOf(r, "getToc") : calls[r][n].doc = "other"

\* C1 (amended).  The same for every such prefix that does not start with a
\* scheme (word characters and then ":"): the context is an inline link with
\* beforeAnchor = prefix and anchorPrefix = frag; the first call of the
\* request resolves prefix; the heading strategy never runs on the current
\* document and no directory is listed; and once the resolved location has
\* loaded as a document the heading strategy has been run on that document.
C1_AnchorIntoOtherDocument ==
    \A r \in Requests : Ran(r) =>
        \A from \in 1..Len(LinePrefix(r)), k \in 1..Len(LinePrefix(r)) :
            ( /\ EndsWithAnchorTarget(LinePrefix(r), from, k)
              /\ from < k
              /\ ~\E c \in from..(k - 1) : EndsWithSchemeTarget(Take(LinePrefix(r), k - 1), from, c)
            ) =>
                /\ context[r].kind = "Link"
                /\ context[r].anchorInfo.defined
                /\ context[r].anchorInfo.beforeAnchor = SubSeq(LinePrefix(r), from, k - 1)
                /\ context[r].anchorInfo.anchorPrefix = Drop(LinePrefix(r), k)
                /\ Len(calls[r]) >= 1
                /\ calls[r][1].op = "resolveReference"
                /\ calls[r][1].ref = SubSeq(LinePrefix(r), from, k - 1)
                /\ CallsOf(r, "readDirectory") = {}
                /\ \A n \in CallsOf(r, "getToc") :
                      /\ calls[r][n].doc = "other"
                      /\ calls[r][n].uri = calls[r][1].uri
                /\ otherDoc[r] = "document" => CallsOf(r, "getToc") # {}

\* A request on "[..](prefix#frag" that ran the heading strategy on the other
\* document and returned its items.
C1_Witness ==
    \E r \in Requests :
        /\ Ran(r) /\ pc[r] = "done"
        /\ \E from \in 1..Len(LinePrefix(r)), k \in 1..Len(LinePrefix(r)) :
              EndsWithAnchorTarget(LinePrefix(r), from, k) /\ from < k
        /\ otherDoc[r] = "document"
        /\ Len(items[r]) > 0

\* C5.  For every line prefix "[x](#frag" with frag made of word characters,
\* the context is an inline link whose anchor is in the current document
\* (anchorInfo present, beforeAnchor empty, anchorPrefix = frag), and the only
\* call the request ever makes is the table of contents of the current
\* document: no reference is resolved, no document loaded, no directory listed.
C5_AnchorInCurrentDocument ==
    \A r \in Requests : Ran(r) =>
        \A from \in 1..Len(LinePrefix(r)) :
            EndsWithAnchorTarget(LinePrefix(r), from, from) =>
                /\ context[r].kind = "Link"
                /\ context[r].anchorInfo.defined
                /\ context[r].anchorInfo.beforeAnchor = <<>>
                /\ context[r].anchorInfo.anchorPrefix = Drop(LinePrefix(r), from)
                /\ Len(calls[r]) = 1
                /\ calls[r][1].op = "getToc"
                /\ calls[r][1].doc = "current"

\* A request on "[..](#frag" that has returned the current document's headings.
C5_Witness ==
    \E r \in Requests :
        /\ Ran(r) /\ pc[r] = "done"
        /\ \E from \in 1..Len(LinePrefix(r)) :
              EndsWithAnchorTarget(LinePrefix(r), from, from) /\ from < Len(LinePrefix(r))
        /\ Len(items[r]) > 0

\* C8.  For every line prefix "[x](" scheme ":" rest, with scheme one or more
\* word characters and rest free of white space and parentheses, the context
\* is undefined, and the request returns an empty list having called nothing.
C8_SchemeIsNoPath ==
    \A r \in Requests : Ran(r) =>
        \A from \in 1..Len(LinePrefix(r)), k \in 1..Len(LinePrefix(r)) :
            EndsWithSchemeTarget(LinePrefix(r), from, k) =>
                /\ context[r] = NoContext
                /\ pc[r] = "done"
                /\ items[r] = <<>>
                /\ calls[r] = <<>>

\* A request on "[..](a:" followed by more text.
C8_Witness ==
    \E r \in Requests :
        /\ Ran(r)
        /\ \E from \in 1..Len(LinePrefix(r)), k \in 1..Len(LinePrefix(r)) :
              EndsWithSchemeTarget(LinePrefix(r), from, k) /\ k < Len(LinePrefix(r))

\* What a listing is to be shown as: label, kind and command of each entry
\* whose name does not start with ".", in listing order.
RECURSIVE ExpectedPathItems(_)
ExpectedPathItems(entries) ==
    IF entries = <<>>
    THEN <<>>
    ELSE LET name == Head(entries)[1]
             type == Head(entries)[2]
             rest == ExpectedPathItems(Tail(entries))
         IN  IF name[1] = "."
             THEN rest
             ELSE IF type = "Directory"
             THEN << [label |-> Append(name, "/"), kind |-> "Folder", command |-> TRUE] >> \o rest
             ELSE << [label |-> name, kind |-> "File", command |-> FALSE] >> \o rest

\* The File and Folder items of a request, without their ranges.
IsPathItem(item) == item.kind \in {"File", "Folder"}

PathItemsOf(r) ==
    LET shown == SelectSeq(items[r], IsPathItem)
    IN  [n \in 1..Len(shown) |->
            [label |-> shown[n].label, kind |-> shown[n].kind, command |-> shown[n].command]]

\* C6.  Whenever readDirectory has returned a listing, the File and Folder
\* items of the result are exactly the entries of the listing whose name does
\* not start with ".", in listing order: a directory as name + "/" with kind
\* Folder and the command that triggers suggestions again, any other entry as
\* name with kind File and no command.
C6_PathSuggestions ==
    \A r \in Requests :
        /\ infos[r].status = "listing" =>
              PathItemsOf(r) = ExpectedPathItems(infos[r].entries)
        /\ \A n \in 1..Len(items[r]) :
              /\ items[r][n].command <=> items[r][n].kind = "Folder"
              /\ IsPathItem(items[r][n]) => items[r][n].label[1] # "."

\* A listing with a hidden entry, a directory and another entry was returned.
C6_Witness ==
    \E r \in Requests :
        /\ infos[r].status = "listing"
        /\ \E n \in 1..Len(infos[r].entries) : infos[r].entries[n][1][1] = "."
        /\ \E n \in 1..Len(items[r]) : items[r][n].kind = "Folder"
        /\ \E n \in 1..Len(items[r]) : items[r][n].kind = "File"

\* n is the length of the longest run of characters after the cursor of
\* request r free of white space and of the closing delimiter of its link.
IsLinkSuffixLength(r, n) ==
    LET closer == IF context[r].kind = "ReferenceLink" THEN "]" ELSE ")"
        stop   == WhiteSpace \cup {closer}
    IN  /\ position[r] + n <= Len(line[r])
        /\ \A m \in 1..n : line[r][position[r] + m] \notin stop
        /\ position[r] + n < Len(line[r]) => line[r][position[r] + n + 1] \in stop

\* C7.  Every item of every request has an insert range that ends at the
\* cursor and a replace range that starts where the insert range starts and
\* ends length(linkSuffix) characters after the cursor, linkSuffix being the
\* longest run of characters after the cursor free of white space and of the
\* closing delimiter: ")" in an inline link, "]" in a reference link.
C7_Ranges ==
    \A r \in Requests : \A n \in 1..Len(items[r]) :
        /\ items[r][n].inserting[2] = position[r]
        /\ items[r][n].replacing[1] = items[r][n].inserting[1]
        /\ IsLinkSuffixLength(r, items[r][n].replacing[2] - position[r])

\* A request returned heading items and path items in front of a suffix.
C7_Witness ==
    \E r \in Requests :
        /\ pc[r] = "done"
        /\ \E n \in 1..Len(items[r]) : items[r][n].kind = "Reference"
        /\ \E n \in 1..Len(items[r]) : items[r][n].kind = "Folder"
        /\ Len(context[r].linkSuffix) > 0
        /\ Len(context[r].linkSuffix) < Len(line[r]) - position[r]

\* C2.  Every failure of an external call made during provideCompletionItems
\* is caught locally: no request ever completes with an error.
C2_FailuresAreCaught ==
    \A r \in Requests : pc[r] # "failed"

\* C3.  resolveReference of a reference that starts with "/" returns nothing
\* when no workspace folder is known for the document, and the reference
\* joined onto the workspace folder when one is.
C3_AbsoluteReference ==
    \A r \in Requests : \A n \in CallsOf(r, "resolveReference") :
        StartsWith(calls[r][n].ref, "/") =>
            IF workspaceFolder.defined
            THEN /\ calls[r][n].uri.defined
                 /\ calls[r][n].uri.path = joinPath(WorkspaceRoot, calls[r][n].ref)
            ELSE ~calls[r][n].uri.defined

\* The external calls of a log: table of contents, document load, listing.
ExternalCalls(log) ==
    {n \in 1..Len(log) : log[n].op \in {"getToc", "resolveUriToMarkdownFile", "readDirectory"}}

\* C4.  Once the cancellation token of a request is set, that request starts
\* no further external call.
C4_CancellationHonoured ==
    [][\A r \in Requests : cancelled[r] => ExternalCalls(calls'[r]) = ExternalCalls(calls[r])]_vars

\* s[q] s[q + 1] is a link opener, "](" or "][", closing a "[label".
IsOpenerAt(s, q) ==
    /\ 1 < q /\ q + 1 <= Len(s)
    /\ s[q] = "]"
    /\ s[q + 1] \in {"(", "["}
    /\ \E i \in 1..(q - 1) : s[i] = "[" /\ \A m \in (i + 1)..(q - 1) : s[m] # "]"

\* The opener at q is not closed before the end of s.
IsUnterminatedAt(s, q) ==
    LET closer == IF s[q + 1] = "(" THEN ")" ELSE "]"
    IN  \A m \in (q + 2)..Len(s) : s[m] # closer

\* C9.  Whenever a context is returned, its kind and linkPrefix are those of
\* the rightmost unterminated link opener before the cursor.
C9_RightmostOpener ==
    \A r \in Requests : (Ran(r) /\ context[r].kind # "undefined") =>
        \E q \in 1..Len(LinePrefix(r)) :
            /\ IsOpenerAt(LinePrefix(r), q) /\ IsUnterminatedAt(LinePrefix(r), q)
            /\ \A m \in (q + 1)..Len(LinePrefix(r)) :
                   ~(IsOpenerAt(LinePrefix(r), m) /\ IsUnterminatedAt(LinePrefix(r), m))
            /\ context[r].kind = IF LinePrefix(r)[q + 1] = "(" THEN "Link" ELSE "ReferenceLink"
            /\ context[r].linkPrefix =
                   Drop(LinePrefix(r), q + 1 + SpanLength(Drop(LinePrefix(r), q + 1), WhiteSpace))

\* C10.  The linkPrefix of a reference-link context holds no white space, no
\* square bracket and no parenthesis, and the text before the cursor ends
\* with "[label][", spaces, and that linkPrefix.
C10_ReferencePrefix ==
    \A r \in Requests : (Ran(r) /\ context[r].kind = "ReferenceLink") =>
        /\ \A n \in 1..Len(context[r].linkPrefix) :
               context[r].linkPrefix[n] \notin (WhiteSpace \cup {"[", "]", "(", ")"})
        /\ \E q \in 1..Len(LinePrefix(r)) :
               /\ IsOpenerAt(LinePrefix(r), q)
               /\ LinePrefix(r)[q + 1] = "["
               /\ context[r].linkPrefix =
                      Drop(LinePrefix(r), q + 1 + SpanLength(Drop(LinePrefix(r), q + 1), WhiteSpace))
====
